---- MODULE Spec2Model ----
(***************************************************************************)
(* A model of the JavaScript solutions of the advent-of-code repository:   *)
(*   day-01  counting increases (part1) and 3-wide windows (part2)         *)
(*   day-02  forward/down/up instructions, plain and aim-adjusted          *)
(*   day-03  bit-frequency filter (getCommons, part1, part2)               *)
(*   day-04  bingo boards (Board.draw / isValid / unmarkedSum, part1/2)    *)
(*   day-05  line segments rastered onto a grid (range, run)               *)
(* and of the start-up code of each script (readFileSync of an argument or *)
(* a default, and the .map() that turns the lines into records).           *)
(*                                                                         *)
(* Every script is a separate program, so every script has its own group   *)
(* of variables and its own specification; a group that a specification    *)
(* does not run stays in its idle value.                                   *)
(***************************************************************************)
EXTENDS Integers, Sequences, FiniteSets, TLC

VARIABLES
  \* day-05 (line segments)
  lines,        \* the parsed Line[] handed to part1 and part2
  ventsPc,      \* "off" | "start" | "part1" | "done"
  result1,      \* part1(input), 0 before it is computed
  result2,      \* part2(input), 0 before it is computed
  \* day-04 (bingo)
  draws,        \* the draws the loop `for (n of draws)` has taken so far
  boards,       \* Board[]: numbers (a grid of {number, marked}), alreadyValidated
  part,         \* 1 while part1 runs, 2 while part2 runs, 0 when neither
  bingoPc,      \* "off" | "loop" | "done" | "threw"
  bi,           \* the board the inner loop `for (const board of boards)` is
                \* at, 0 between two draws
  n,            \* part1's `let n` / part2's `const n`: the draw being processed
  lastComplete, \* part2: index of the board in lastComplete, 0 for null
  completedDraw,\* part2: completedDraw, NoDraw for null
  completed,    \* part2: completed
  bingoResult,  \* the value returned, NoDraw before the return
  returnedAt,   \* "none" | "early" (line 125) | "end" (line 98 or 129)
  \* day-01 (depth measurements)
  sonarPc,      \* "off" | "run"
  data01,       \* the number[] handed to part1 and part2
  calls01,      \* the calls made so far: [fn, arg, ret], arg the array as the
                \* call found it
  \* day-02 (instructions)
  instrs,       \* the parsed Instruction[]
  divePc,       \* "off" | "start" | "part1" | "done"
  diveResult1,  \* part1(input), 0 before it is computed
  diveResult2,  \* part2(input), 0 before it is computed
  \* day-03 (binary diagnostic)
  data03,       \* the string[] handed to getCommons, part1 and part2
  calls03,      \* the calls that have returned: [fn, arg, ret]
  diagPc,       \* "off" | "idle" | "part2" (inside part2's loop)
  arg03,        \* part2's data as the call found it
  validOxygen,  \* part2: validOxygen
  validCarbon,  \* part2: validCarbon
  i03,          \* part2: the loop's i
  \* the start of a script: reading the input file
  ldScript,     \* the script that runs, "none" when none is loading
  argv2,        \* process.argv[2]: a path, or Undefined when none was given
  files,        \* the paths that name a readable file
  ldPc,         \* "off" | "start" | "read" | "threw"
  ldPath,       \* the path handed to readFileSync
  \* the start of a script: turning the lines into records
  prScript,     \* the script that runs, "none" when none is parsing
  rawLines,     \* the file split into lines, each a sequence of characters
  records,      \* the records .map() has produced so far
  prPc          \* "off" | "map" | "parsed" | "threw"

ventsVars == <<lines, ventsPc, result1, result2>>
bingoVars == <<draws, boards, part, bingoPc, bi, n, lastComplete, completedDraw,
               completed, bingoResult, returnedAt>>
sonarVars == <<sonarPc, data01, calls01>>
diveVars  == <<instrs, divePc, diveResult1, diveResult2>>
diagVars  == <<data03, calls03, diagPc, arg03, validOxygen, validCarbon, i03>>
loadVars  == <<ldScript, argv2, files, ldPc, ldPath>>
parseVars == <<prScript, rawLines, records, prPc>>
vars == <<ventsVars, bingoVars, sonarVars, diveVars, diagVars, loadVars,
          parseVars>>

\* JavaScript's NaN, as the counters of this model (all >= 0) can hold it.
NaN == -1

----------------------------------------------------------------------------
(* Helpers *)

Abs(a) == IF a < 0 THEN -a ELSE a

\* All sequences over S of length at most k.
SeqsUpTo(S, k) == UNION {[1..m -> S] : m \in 0..k}

----------------------------------------------------------------------------
(* day-05: line segments on a grid                                         *)

MaxCoord == 2
MaxLines == 2

Coords == 0..MaxCoord

\* The lines the puzzle promises: horizontal, vertical or at 45 degrees.
IsStraight(l) == l.xs = l.xe \/ l.ys = l.ye
IsDiagonal(l) == ~IsStraight(l) /\ Abs(l.xs - l.xe) = Abs(l.ys - l.ye)
ValidLines ==
  {l \in [xs : Coords, ys : Coords, xe : Coords, ye : Coords] :
     IsStraight(l) \/ IsDiagonal(l)}

\* function* range(start, stop, step = 1): the values it yields, in order.
range(start, stop) ==
  IF start <= stop
    THEN [k \in 1..(stop - start + 1) |-> start + (k - 1)]
    ELSE [k \in 1..(start - stop + 1) |-> start - (k - 1)]

\* Lines 33-45: w and h, one more than the largest x and the largest y.
RECURSIVE MaxField(_, _, _, _)
MaxField(ls, k, acc, which) ==
  IF k > Len(ls) THEN acc
  ELSE LET a  == IF which = "x" THEN ls[k].xs ELSE ls[k].ys
           b  == IF which = "x" THEN ls[k].xe ELSE ls[k].ye
           a1 == IF a > acc THEN a ELSE acc
           b1 == IF b > a1 THEN b ELSE a1
       IN  MaxField(ls, k + 1, b1, which)

gridW(ls) == MaxField(ls, 1, 0, "x") + 1
gridH(ls) == MaxField(ls, 1, 0, "y") + 1

\* board[idx] += 1 on a JavaScript array: an index the array does not hold
\* reads undefined, undefined + 1 is NaN, and the write creates the element.
PlusOne(board, idx) ==
  IF idx \in DOMAIN board
    THEN [board EXCEPT ![idx] = IF @ = NaN THEN NaN ELSE @ + 1]
    ELSE [j \in (DOMAIN board) \cup {idx} |->
            IF j = idx THEN NaN ELSE board[j]]

\* The cell index of (x, y) as lines 54, 55 and 71 compute it.
cellIndex(x, y, w) == x * w + y

\* The indices one line writes, in order (lines 50-74); none when the line is
\* a diagonal and diagonals are off.
lineIndices(l, w, diagonals) ==
  IF l.xs = l.xe \/ l.ys = l.ye
    THEN IF l.xs = l.xe
           THEN LET r == range(l.ys, l.ye)
                IN  [k \in DOMAIN r |-> cellIndex(l.xs, r[k], w)]
           ELSE LET r == range(l.xs, l.xe)
                IN  [k \in DOMAIN r |-> cellIndex(r[k], l.ys, w)]
    ELSE IF diagonals
           THEN LET xRange == range(l.xs, l.xe)
                    yRange == range(l.ys, l.ye)
                IN  [k \in 1..(Abs(l.xs - l.xe) + 1) |->
                       cellIndex(xRange[k], yRange[k], w)]
           ELSE << >>

RECURSIVE markAll(_, _, _)
markAll(board, idxs, k) ==
  IF k > Len(idxs) THEN board
  ELSE markAll(PlusOne(board, idxs[k]), idxs, k + 1)

RECURSIVE drawLines(_, _, _, _, _)
drawLines(board, ls, k, w, diagonals) ==
  IF k > Len(ls) THEN board
  ELSE drawLines(markAll(board, lineIndices(ls[k], w, diagonals), 1),
                 ls, k + 1, w, diagonals)

\* function run(lines, diagonals), lines 31-78.
run(ls, diagonals) ==
  LET w      == gridW(ls)
      h      == gridH(ls)
      board0 == [j \in 0..(w * h - 1) |-> 0]
      board  == drawLines(board0, ls, 1, w, diagonals)
  IN  Cardinality({j \in DOMAIN board : board[j] # NaN /\ board[j] >= 2})

d05_part1(data) == run(data, FALSE)
d05_part2(data) == run(data, TRUE)

VentsIdle ==
  /\ lines = << >>
  /\ ventsPc = "off"
  /\ result1 = 0
  /\ result2 = 0

\* The state after the input was parsed (lines 99-110).
VentsInit ==
  /\ lines \in SeqsUpTo(ValidLines, MaxLines)
  /\ ventsPc = "start"
  /\ result1 = 0
  /\ result2 = 0

\* Line 113: const result1 = part1(input).
VentsPart1 ==
  /\ ventsPc = "start"
  /\ result1' = d05_part1(lines)
  /\ ventsPc' = "part1"
  /\ UNCHANGED <<lines, result2, bingoVars, sonarVars, diveVars, diagVars, loadVars, parseVars>>

\* Line 116: const result2 = part2(input).
VentsPart2 ==
  /\ ventsPc = "part1"
  /\ result2' = d05_part2(lines)
  /\ ventsPc' = "done"
  /\ UNCHANGED <<lines, result1, bingoVars, sonarVars, diveVars, diagVars, loadVars, parseVars>>

VentsNext == VentsPart1 \/ VentsPart2

----------------------------------------------------------------------------
(* day-04: bingo                                                           *)

BoardDim == 2
MaxNum == 2
MaxBoards == 2
MaxDraws == 2

\* null, for completedDraw and for a result not yet returned.
NoDraw == -1

Nums == 0..MaxNum

\* The boards of the model are BoardDim x BoardDim grids that count up
\* (modulo MaxNum + 1) from a start number, by rowStep from one row to the next
\* and by colStep from one column to the next, in one of three shapes:
\*   <<0, 1>>         all rows equal, so each column holds one number only;
\*   <<1, 0>>         all columns equal, so each row holds one number only;
\*   <<BoardDim, 1>>  counting up in row-major order.
\* Line 18: every cell starts unmarked; line 24: alreadyValidated = false.
Shapes == {<<0, 1>>, <<1, 0>>, <<BoardDim, 1>>}

MakeBoard(start, shape) ==
  [ numbers |->
      [i \in 1..BoardDim |->
        [j \in 1..BoardDim |->
          [ number |-> (start + shape[1] * (i - 1) + shape[2] * (j - 1))
                         % (MaxNum + 1),
            marked |-> FALSE ]]],
    alreadyValidated |-> FALSE ]

BoardSet == {MakeBoard(a, sh) : a \in Nums, sh \in Shapes}

\* Lines 21-22: this.w = numbers.length, this.h = numbers[0].length.
boardW(board) == Len(board.numbers)
boardH(board) == Len(board.numbers[1])

\* Board.draw(number), lines 31-38.
draw(board, number) ==
  [board EXCEPT !.numbers =
     [i \in 1..boardW(board) |->
       [j \in 1..boardH(board) |->
         IF board.numbers[i][j].number = number
           THEN [board.numbers[i][j] EXCEPT !.marked = TRUE]
           ELSE board.numbers[i][j]]]]

\* Lines 48-54: some j with numbers.every(sub => sub[j].marked).
someColumnMarked(board) ==
  \E j \in 1..boardH(board) :
    \A i \in 1..boardW(board) : board.numbers[i][j].marked

\* Lines 57-63: some i with numbers[i].every(({ marked }) => marked).
someRowMarked(board) ==
  \E i \in 1..boardW(board) :
    \A j \in 1..boardH(board) : board.numbers[i][j].marked

\* isValid with the second loop (lines 57-63) left out.
isValid_columnsOnly(board) ==
  \/ board.alreadyValidated
  \/ someColumnMarked(board)

\* Board.isValid(), lines 44-66: the value it returns ...
isValid(board) ==
  \/ board.alreadyValidated
  \/ someColumnMarked(board)
  \/ someRowMarked(board)

\* ... and the board it leaves: alreadyValidated is set when it returns true.
afterIsValid(board) ==
  IF isValid(board) THEN [board EXCEPT !.alreadyValidated = TRUE] ELSE board

\* Board.unmarkedSum(), lines 72-76: the cells in row-major order, a marked
\* one counted as 0, summed by reduce.
RECURSIVE sumCells(_, _, _)
sumCells(board, k, acc) ==
  IF k > boardW(board) * boardH(board) THEN acc
  ELSE LET i    == ((k - 1) \div boardH(board)) + 1
           j    == ((k - 1) % boardH(board)) + 1
           cell == board.numbers[i][j]
       IN  sumCells(board, k + 1,
                    acc + (IF ~cell.marked THEN cell.number ELSE 0))

unmarkedSum(board) == sumCells(board, 1, 0)

BingoIdle ==
  /\ draws = << >>
  /\ boards = << >>
  /\ part = 0
  /\ bingoPc = "off"
  /\ bi = 0
  /\ n = NoDraw
  /\ lastComplete = 0
  /\ completedDraw = NoDraw
  /\ completed = 0
  /\ bingoResult = NoDraw
  /\ returnedAt = "none"

\* Lines 143 and 146: each part gets boards freshly built from the input.
BingoStart(p) ==
  /\ draws = << >>
  /\ boards \in SeqsUpTo(BoardSet, MaxBoards)
  /\ part = p
  /\ bingoPc = "loop"
  /\ bi = 0
  /\ n = NoDraw
  /\ lastComplete = 0
  /\ completedDraw = NoDraw
  /\ completed = 0
  /\ bingoResult = NoDraw
  /\ returnedAt = "none"

Bingo1Init == BingoStart(1)
Bingo2Init == BingoStart(2)

\* The inner loop moves on to the next board, or ends (bi = 0).
nextBoard == IF bi >= Len(boards) THEN 0 ELSE bi + 1

\* `for (n of draws)` (lines 90 and 114) takes its next element: the draws
\* are any sequence of at most MaxDraws numbers, revealed as the loop runs.
BingoNextDraw ==
  /\ bingoPc = "loop"
  /\ bi = 0
  /\ Len(draws) < MaxDraws
  /\ \E d \in Nums :
       /\ draws' = Append(draws, d)
       /\ n' = d
  /\ bi' = IF Len(boards) = 0 THEN 0 ELSE 1
  /\ UNCHANGED <<boards, part, bingoPc, lastComplete, completedDraw,
                 completed, bingoResult, returnedAt, ventsVars, sonarVars, diveVars, diagVars, loadVars, parseVars>>

\* part1, lines 91-94 and 98: one pass of the inner loop.
Part1Board ==
  /\ bingoPc = "loop"
  /\ part = 1
  /\ bi >= 1
  /\ LET drawn == draw(boards[bi], n)
         board == afterIsValid(drawn)
     IN  /\ boards' = [boards EXCEPT ![bi] = board]
         /\ IF isValid(drawn)
              THEN /\ bingoResult' = unmarkedSum(board) * n
                   /\ bingoPc' = "done"
                   /\ returnedAt' = "end"
                   /\ bi' = bi
              ELSE /\ bi' = nextBoard
                   /\ UNCHANGED <<bingoResult, bingoPc, returnedAt>>
  /\ UNCHANGED <<draws, part, n, lastComplete, completedDraw, completed,
                 ventsVars, sonarVars, diveVars, diagVars, loadVars, parseVars>>

\* part1, lines 95-98: the draws ran out, the inner function returned
\* undefined, and firstValid.unmarkedSum() throws a TypeError.  (Line 137:
\* split(',') yields at least one draw.)
Part1Exhausted ==
  /\ bingoPc = "loop"
  /\ part = 1
  /\ bi = 0
  /\ Len(draws) >= 1
  /\ bingoPc' = "threw"
  /\ UNCHANGED <<draws, boards, part, bi, n, lastComplete, completedDraw,
                 completed, bingoResult, returnedAt, ventsVars, sonarVars, diveVars, diagVars, loadVars, parseVars>>

\* Line 116 left out: no board is passed over.
skipsBoard_never(board) == FALSE

\* part2, line 116: a board that is already complete is passed over.
skipsBoard(board) == board.alreadyValidated

\* part2, lines 115-126: one pass of the inner loop.
Part2Board ==
  /\ bingoPc = "loop"
  /\ part = 2
  /\ bi >= 1
  /\ IF skipsBoard(boards[bi])
       THEN \* line 116: continue
            /\ bi' = nextBoard
            /\ UNCHANGED <<boards, lastComplete, completedDraw, completed,
                           bingoResult, bingoPc, returnedAt>>
       ELSE LET drawn == draw(boards[bi], n)
                board == afterIsValid(drawn)
                valid == isValid(drawn)
                done  == IF valid THEN completed + 1 ELSE completed
            IN  /\ boards' = [boards EXCEPT ![bi] = board]
                /\ completed' = done
                /\ lastComplete' = IF valid THEN bi ELSE lastComplete
                /\ completedDraw' = IF valid THEN n ELSE completedDraw
                /\ IF done = Len(boards)
                     THEN /\ bingoResult' = unmarkedSum(board) * n
                          /\ bingoPc' = "done"
                          /\ returnedAt' = "early"
                          /\ bi' = bi
                     ELSE /\ bi' = nextBoard
                          /\ UNCHANGED <<bingoResult, bingoPc, returnedAt>>
  /\ UNCHANGED <<draws, part, n, ventsVars, sonarVars, diveVars, diagVars, loadVars, parseVars>>

\* part2, line 129, after the last draw:
\* return lastComplete.unmarkedSum() * completedDraw, a TypeError when
\* lastComplete is still null.
Part2Exhausted ==
  /\ bingoPc = "loop"
  /\ part = 2
  /\ bi = 0
  /\ Len(draws) >= 1
  /\ IF lastComplete = 0
       THEN /\ bingoPc' = "threw"
            /\ UNCHANGED <<bingoResult, returnedAt>>
       ELSE /\ bingoResult' = unmarkedSum(boards[lastComplete]) * completedDraw
            /\ bingoPc' = "done"
            /\ returnedAt' = "end"
  /\ UNCHANGED <<draws, boards, part, bi, n, lastComplete, completedDraw,
                 completed, ventsVars, sonarVars, diveVars, diagVars, loadVars, parseVars>>

Bingo1Next == BingoNextDraw \/ Part1Board \/ Part1Exhausted
Bingo2Next == BingoNextDraw \/ Part2Board \/ Part2Exhausted

----------------------------------------------------------------------------
(* day-01: depth measurements                                              *)

MaxData == 5
MaxDepth == 2
MaxCalls == 2

\* The example of the puzzle text.
Example01 == <<199, 200, 208, 210, 200, 207, 240, 269, 260, 263>>

\* part1 with >= for > at line 14.
RECURSIVE part1Loop_ge(_, _, _)
part1Loop_ge(data, i, largerCount) ==
  IF i < Len(data) - 1
    THEN LET a == data[i + 1]
             b == data[i + 2]
         IN  part1Loop_ge(data, i + 1,
                          IF b >= a THEN largerCount + 1 ELSE largerCount)
    ELSE largerCount

\* part1's loop, lines 10-15, from index i (0-based, as in the source) on.
RECURSIVE part1Loop(_, _, _)
part1Loop(data, i, largerCount) ==
  IF i < Len(data) - 1
    THEN LET a == data[i + 1]
             b == data[i + 2]
         IN  part1Loop(data, i + 1,
                       IF b > a THEN largerCount + 1 ELSE largerCount)
    ELSE largerCount

\* function part1(data), lines 5-18.
d01_part1(data) == part1Loop(data, 0, 0)

\* part2 with windowB >= windowA at line 30.
RECURSIVE part2Loop_ge(_, _, _)
part2Loop_ge(data, i, largerCount) ==
  IF i < Len(data) - 3
    THEN LET windowA == data[i + 1] + data[i + 2] + data[i + 3]
             windowB == data[i + 2] + data[i + 3] + data[i + 4]
         IN  part2Loop_ge(data, i + 1,
                          IF windowB >= windowA THEN largerCount + 1
                                                ELSE largerCount)
    ELSE largerCount

\* part2's loop, lines 26-31, from index i (0-based) on.
RECURSIVE part2Loop(_, _, _)
part2Loop(data, i, largerCount) ==
  IF i < Len(data) - 3
    THEN LET windowA == data[i + 1] + data[i + 2] + data[i + 3]
             windowB == data[i + 2] + data[i + 3] + data[i + 4]
         IN  part2Loop(data, i + 1,
                       IF windowB > windowA THEN largerCount + 1
                                            ELSE largerCount)
    ELSE largerCount

\* function part2(data), lines 22-34.
d01_part2(data) == part2Loop(data, 0, 0)

\* A part2 that keeps its window sums in the array it was given:
\* data[i] = data[i] + data[i + 1] + data[i + 2] for every window.
d01_part2_leaves_sums(data) ==
  [k \in 1..Len(data) |->
     IF k + 2 <= Len(data) THEN data[k] + data[k + 1] + data[k + 2]
                           ELSE data[k]]

\* The array part1 and part2 leave behind: neither has a statement that
\* writes to data (lines 5-18 and 22-34), so it is the array they were given.
d01_part1_leaves(data) == data
d01_part2_leaves(data) == data

SonarIdle ==
  /\ sonarPc = "off"
  /\ data01 = << >>
  /\ calls01 = << >>

\* The state after line 40: any short sequence of small depths, or the
\* example.
SonarInit ==
  /\ sonarPc = "run"
  /\ data01 \in SeqsUpTo(0..MaxDepth, MaxData) \cup {Example01}
  /\ calls01 = << >>

\* Line 42: part1(input).
SonarCallPart1 ==
  /\ sonarPc = "run"
  /\ Len(calls01) < MaxCalls
  /\ calls01' = Append(calls01, [fn |-> "part1", arg |-> data01,
                                 ret |-> d01_part1(data01)])
  /\ data01' = d01_part1_leaves(data01)
  /\ UNCHANGED <<sonarPc, ventsVars, bingoVars, diveVars, diagVars, loadVars, parseVars>>

\* Line 45: part2(input).
SonarCallPart2 ==
  /\ sonarPc = "run"
  /\ Len(calls01) < MaxCalls
  /\ calls01' = Append(calls01, [fn |-> "part2", arg |-> data01,
                                 ret |-> d01_part2(data01)])
  /\ data01' = d01_part2_leaves(data01)
  /\ UNCHANGED <<sonarPc, ventsVars, bingoVars, diveVars, diagVars, loadVars, parseVars>>

SonarNext == SonarCallPart1 \/ SonarCallPart2

----------------------------------------------------------------------------
(* day-02: forward / down / up                                             *)

MaxMag == 2
MaxInstr == 3

Instruction == [dir : {"forward", "down", "up"}, num : 0..MaxMag]

\* The example of the puzzle text.
Example02 ==
  << [dir |-> "forward", num |-> 5], [dir |-> "down", num |-> 5],
     [dir |-> "forward", num |-> 8], [dir |-> "up", num |-> 3],
     [dir |-> "down", num |-> 8], [dir |-> "forward", num |-> 2] >>

\* part1's loop with 'up' and 'down' exchanged.
RECURSIVE dive1Loop_swapped(_, _, _, _)
dive1Loop_swapped(data, k, depth, horizontal) ==
  IF k > Len(data) THEN depth * horizontal
  ELSE LET instruction == data[k]
       IN  CASE instruction.dir = "forward" ->
                  dive1Loop_swapped(data, k + 1, depth,
                                    horizontal + instruction.num)
             [] instruction.dir = "up" ->
                  dive1Loop_swapped(data, k + 1, depth + instruction.num,
                                    horizontal)
             [] instruction.dir = "down" ->
                  dive1Loop_swapped(data, k + 1, depth - instruction.num,
                                    horizontal)
             [] OTHER -> dive1Loop_swapped(data, k + 1, depth, horizontal)

\* part1's loop (lines 134-142) from the k-th instruction on, and its return
\* (line 144).  A dir that is none of the three cases changes nothing.
RECURSIVE dive1Loop(_, _, _, _)
dive1Loop(data, k, depth, horizontal) ==
  IF k > Len(data) THEN depth * horizontal
  ELSE LET instruction == data[k]
       IN  CASE instruction.dir = "forward" ->
                  dive1Loop(data, k + 1, depth, horizontal + instruction.num)
             [] instruction.dir = "up" ->
                  dive1Loop(data, k + 1, depth - instruction.num, horizontal)
             [] instruction.dir = "down" ->
                  dive1Loop(data, k + 1, depth + instruction.num, horizontal)
             [] OTHER -> dive1Loop(data, k + 1, depth, horizontal)

\* function part1(data), lines 129-146.
d02_part1(data) == dive1Loop(data, 1, 0, 0)

\* part2's loop (lines 156-167) and its return (line 169).
RECURSIVE dive2Loop(_, _, _, _, _)
dive2Loop(data, k, aim, depth, horizontal) ==
  IF k > Len(data) THEN depth * horizontal
  ELSE LET inst == data[k]
       IN  CASE inst.dir = "up" ->
                  dive2Loop(data, k + 1, aim - inst.num, depth, horizontal)
             [] inst.dir = "down" ->
                  dive2Loop(data, k + 1, aim + inst.num, depth, horizontal)
             [] inst.dir = "forward" ->
                  dive2Loop(data, k + 1, aim, depth + inst.num * aim,
                            horizontal + inst.num)
             [] OTHER -> dive2Loop(data, k + 1, aim, depth, horizontal)

\* function part2(data), lines 150-171.
d02_part2(data) == dive2Loop(data, 1, 0, 0, 0)

DiveIdle ==
  /\ instrs = << >>
  /\ divePc = "off"
  /\ diveResult1 = 0
  /\ diveResult2 = 0

\* The state after the input was parsed (lines 174-180).
DiveInit ==
  /\ instrs \in SeqsUpTo(Instruction, MaxInstr) \cup {Example02}
  /\ divePc = "start"
  /\ diveResult1 = 0
  /\ diveResult2 = 0

\* Line 183: const result1 = part1(input).
DivePart1 ==
  /\ divePc = "start"
  /\ diveResult1' = d02_part1(instrs)
  /\ divePc' = "part1"
  /\ UNCHANGED <<instrs, diveResult2, ventsVars, bingoVars, sonarVars, diagVars, loadVars, parseVars>>

\* Line 186: const result2 = part2(input).
DivePart2 ==
  /\ divePc = "part1"
  /\ diveResult2' = d02_part2(instrs)
  /\ divePc' = "done"
  /\ UNCHANGED <<instrs, diveResult1, ventsVars, bingoVars, sonarVars, diagVars, loadVars, parseVars>>

DiveNext == DivePart1 \/ DivePart2

----------------------------------------------------------------------------
(* day-03: binary diagnostic                                               *)

MaxWidth == 2
MaxRows == 3

Bit == {"0", "1"}

\* The inputs: a list of 1 to MaxRows strings of '0' and '1', all of one
\* width between 1 and MaxWidth.
Reports ==
  UNION {[1..m -> [1..w -> Bit]] : m \in 1..MaxRows, w \in 1..MaxWidth}

\* How many strings of arr have the character ch at place i (1-based).
countAt(arr, i, ch) == Cardinality({k \in DOMAIN arr : arr[k][i] = ch})

\* getCommons(arr), lines 3-10: per place, '1' when '1' is as common as '0'
\* or more, else '0'.
getCommons(arr) ==
  [i \in 1..Len(arr[1]) |->
     IF countAt(arr, i, "1") >= countAt(arr, i, "0") THEN "1" ELSE "0"]

\* parseInt(s, 2) of a string of '0' and '1'; NaN for the empty string.
RECURSIVE binValue(_, _, _)
binValue(str, k, acc) ==
  IF k > Len(str) THEN acc
  ELSE binValue(str, k + 1, 2 * acc + (IF str[k] = "1" THEN 1 ELSE 0))

parseInt2(str) == IF str = << >> THEN NaN ELSE binValue(str, 1, 0)

\* parseInt(array, 2): the array is turned into a string, its elements joined
\* by ',', and the digits before the first ',' are parsed; NaN for [].
parseInt2OfArray(arr) == IF arr = << >> THEN NaN ELSE parseInt2(arr[1])

\* a * b in JavaScript.
times(a, b) == IF a = NaN \/ b = NaN THEN NaN ELSE a * b

\* a ^ b on the low `width` bits.
RECURSIVE xorBits(_, _, _)
xorBits(a, b, width) ==
  IF width = 0 THEN 0
  ELSE 2 * xorBits(a \div 2, b \div 2, width - 1) + (((a % 2) + (b % 2)) % 2)

\* part1's loop, lines 19-20: delta = (delta << 1) | parseInt(c[i], 2).
RECURSIVE deltaLoop(_, _, _)
deltaLoop(c, i, delta) ==
  IF i < Len(c)
    THEN deltaLoop(c, i + 1, (delta * 2) + parseInt2(<<c[i + 1]>>))
    ELSE delta

\* function part1(data), lines 13-24.
d03_part1(data) ==
  LET w     == Len(data[1])
      c     == getCommons(data)
      delta == deltaLoop(c, 0, 0)
      mask  == parseInt2([k \in 1..w |-> "1"])
  IN  times(delta, xorBits(delta, mask, w))

\* Array.prototype.filter: a new array of the elements that pass.
RECURSIVE filter(_, _, _, _)
filter(arr, i, ch, keepEqual) ==
  IF arr = << >> THEN << >>
  ELSE LET rest == filter(Tail(arr), i, ch, keepEqual)
       IN  IF (Head(arr)[i] = ch) = keepEqual THEN <<Head(arr)>> \o rest
                                             ELSE rest

\* Lines 34-37, with i the 1-based place.
oxygenStep(valid, i) ==
  IF Len(valid) > 1
    THEN LET c == getCommons(valid) IN filter(valid, i, c[i], TRUE)
    ELSE valid

\* Lines 39-42.
carbonStep(valid, i) ==
  IF Len(valid) > 1
    THEN LET c == getCommons(valid) IN filter(valid, i, c[i], FALSE)
    ELSE valid

\* The array the three functions leave behind: getCommons and part1 only read
\* theirs, part2 works on the copies [...data] and filter returns new arrays.
d03_leaves(data) == data

DiagIdle ==
  /\ data03 = << >>
  /\ calls03 = << >>
  /\ diagPc = "off"
  /\ arg03 = << >>
  /\ validOxygen = << >>
  /\ validCarbon = << >>
  /\ i03 = 0

\* The state after lines 49-52.
DiagInit ==
  /\ data03 \in Reports
  /\ calls03 = << >>
  /\ diagPc = "idle"
  /\ arg03 = << >>
  /\ validOxygen = << >>
  /\ validCarbon = << >>
  /\ i03 = 0

\* A call of getCommons(data), as part1 makes it at line 16.
DiagCallGetCommons ==
  /\ diagPc = "idle"
  /\ Len(calls03) < MaxCalls
  /\ calls03' = Append(calls03, [fn |-> "getCommons", arg |-> data03,
                                 ret |-> getCommons(data03)])
  /\ data03' = d03_leaves(data03)
  /\ UNCHANGED <<diagPc, arg03, validOxygen, validCarbon, i03,
                 ventsVars, bingoVars, sonarVars, diveVars, loadVars, parseVars>>

\* Line 54: part1(input).
DiagCallPart1 ==
  /\ diagPc = "idle"
  /\ Len(calls03) < MaxCalls
  /\ calls03' = Append(calls03, [fn |-> "part1", arg |-> data03,
                                 ret |-> d03_part1(data03)])
  /\ data03' = d03_leaves(data03)
  /\ UNCHANGED <<diagPc, arg03, validOxygen, validCarbon, i03,
                 ventsVars, bingoVars, sonarVars, diveVars, loadVars, parseVars>>

\* Line 57: part2(input) is entered; lines 28-31.
DiagPart2Begin ==
  /\ diagPc = "idle"
  /\ Len(calls03) < MaxCalls
  /\ diagPc' = "part2"
  /\ arg03' = data03
  /\ validOxygen' = data03
  /\ validCarbon' = data03
  /\ i03' = 0
  /\ UNCHANGED <<data03, calls03, ventsVars, bingoVars, sonarVars, diveVars, loadVars, parseVars>>

\* One pass of part2's loop, lines 33-43.
DiagPart2Step ==
  /\ diagPc = "part2"
  /\ i03 < Len(arg03[1])
  /\ validOxygen' = oxygenStep(validOxygen, i03 + 1)
  /\ validCarbon' = carbonStep(validCarbon, i03 + 1)
  /\ i03' = i03 + 1
  /\ data03' = d03_leaves(data03)
  /\ UNCHANGED <<calls03, diagPc, arg03,
                 ventsVars, bingoVars, sonarVars, diveVars, loadVars, parseVars>>

\* Line 45: part2 returns.
DiagPart2Return ==
  /\ diagPc = "part2"
  /\ i03 >= Len(arg03[1])
  /\ calls03' = Append(calls03,
                  [fn |-> "part2", arg |-> arg03,
                   ret |-> times(parseInt2OfArray(validOxygen),
                                 parseInt2OfArray(validCarbon))])
  /\ diagPc' = "idle"
  /\ UNCHANGED <<data03, arg03, validOxygen, validCarbon, i03,
                 ventsVars, bingoVars, sonarVars, diveVars, loadVars, parseVars>>

DiagNext ==
  \/ DiagCallGetCommons
  \/ DiagCallPart1
  \/ DiagPart2Begin
  \/ DiagPart2Step
  \/ DiagPart2Return

----------------------------------------------------------------------------
(* The start of every script: the input file                               *)

Scripts == {"day-01", "day-02", "day-03", "day-04", "day-05"}

\* process.argv[2] when the script was started without an argument.
Undefined == "undefined"
DefaultPath == "./puzzle-input.txt"
Paths == {DefaultPath, "example.txt", "other.txt"}

\* a || b for a path or undefined.
orElse(a, b) == IF a = Undefined THEN b ELSE a

\* The argument of readFileSync in each script:
\*   day-01 (day-01/index.js line 37)       './puzzle-input.txt'
\*   day-02 (day-05/index.js line 174)      process.argv[2]
\*   day-03 (2021/day-03/index.js line 49)  process.argv[2]
\*   day-04 (day-04/index.js line 133)      process.argv[2] || './puzzle-input.txt'
\*   day-05 (day-05/index.js line 99)       process.argv[2] || './puzzle-input.txt'
pathOf01(arg) == DefaultPath
pathOf02(arg) == arg
pathOf03(arg) == arg
pathOf04(arg) == orElse(arg, DefaultPath)
pathOf05(arg) == orElse(arg, DefaultPath)

\* readFileSync(path): a TypeError for undefined, ENOENT for a path that names
\* no file; both end the script.
readFileSync(path) ==
  IF path # Undefined /\ path \in files THEN "read" ELSE "threw"

LoadIdle ==
  /\ ldScript = "none"
  /\ argv2 = Undefined
  /\ files = {}
  /\ ldPc = "off"
  /\ ldPath = Undefined

LoadInit ==
  /\ ldScript \in Scripts
  /\ argv2 \in {Undefined} \cup (Paths \ {DefaultPath})
  /\ files \in SUBSET Paths
  /\ ldPc = "start"
  /\ ldPath = Undefined

Load(script, path) ==
  /\ ldPc = "start"
  /\ ldScript = script
  /\ ldPath' = path
  /\ ldPc' = readFileSync(path)
  /\ UNCHANGED <<ldScript, argv2, files, ventsVars, bingoVars, sonarVars,
                 diveVars, diagVars, parseVars>>

Load01 == Load("day-01", pathOf01(argv2))
Load02 == Load("day-02", pathOf02(argv2))
Load03 == Load("day-03", pathOf03(argv2))
Load04 == Load("day-04", pathOf04(argv2))
Load05 == Load("day-05", pathOf05(argv2))

LoadNext == Load01 \/ Load02 \/ Load03 \/ Load04 \/ Load05

----------------------------------------------------------------------------
(* The start of every script: lines to records                             *)

MaxLineLen == 2
MaxRawLines == 2

Digits == {"0", "1", "2", "3", "4", "5", "6", "7", "8", "9"}

digitValue(ch) ==
  CASE ch = "0" -> 0 [] ch = "1" -> 1 [] ch = "2" -> 2 [] ch = "3" -> 3
    [] ch = "4" -> 4 [] ch = "5" -> 5 [] ch = "6" -> 6 [] ch = "7" -> 7
    [] ch = "8" -> 8 [] ch = "9" -> 9

RECURSIVE decimalValue(_, _, _)
decimalValue(str, k, acc) ==
  IF k > Len(str) THEN acc
  ELSE decimalValue(str, k + 1, 10 * acc + digitValue(str[k]))

\* Number(str) for a string of digits and other characters that are neither
\* white space nor part of a number: 0 for '', NaN for a string with a
\* character that is no digit.
Number(str) ==
  IF str = << >> THEN 0
  ELSE IF \A k \in DOMAIN str : str[k] \in Digits
         THEN decimalValue(str, 1, 0)
         ELSE NaN

\* The lines of the day-01 model: up to MaxLineLen characters, each a digit
\* or a letter.
Lines01 == SeqsUpTo({"1", "2", "x"}, MaxLineLen)

\* The place after the run of digits that starts at k (\d+ is greedy);
\* k itself when there is no digit at k.
RECURSIVE afterDigits(_, _)
afterDigits(str, k) ==
  IF k <= Len(str) /\ str[k] \in Digits THEN afterDigits(str, k + 1) ELSE k

\* The place after an optional blank at k (' ?').
afterBlank(str, k) == IF k <= Len(str) /\ str[k] = " " THEN k + 1 ELSE k

\* Whether the character at k is ch.
hasAt(str, k, ch) == k <= Len(str) /\ str[k] = ch

\* str.match(/^(\d+), ?(\d+) ?-> ?(\d+), ?(\d+)$/), line 103-104: the four
\* groups, or null (the empty sequence here) when the line does not match.
\* No part of the pattern can match in two ways, so one pass decides.
matchLine(str) ==
  LET a1 == afterDigits(str, 1)
      b0 == afterBlank(str, a1 + 1)
      b1 == afterDigits(str, b0)
      c0 == afterBlank(str, b1)
      d0 == afterBlank(str, c0 + 2)
      d1 == afterDigits(str, d0)
      e0 == afterBlank(str, d1 + 1)
      e1 == afterDigits(str, e0)
  IN  IF /\ a1 > 1
         /\ hasAt(str, a1, ",")
         /\ b1 > b0
         /\ hasAt(str, c0, "-")
         /\ hasAt(str, c0 + 1, ">")
         /\ d1 > d0
         /\ hasAt(str, d1, ",")
         /\ e1 > e0
         /\ e1 = Len(str) + 1
        THEN << SubSeq(str, 1, a1 - 1), SubSeq(str, b0, b1 - 1),
                SubSeq(str, d0, d1 - 1), SubSeq(str, e0, e1 - 1) >>
        ELSE << >>

\* The lines of the day-05 model: four fields, two commas and an arrow, each
\* in a right and in a wrong spelling.
Fields05 == {<<"1", "2">>, <<"x">>, << >>}
Commas05 == {<<",">>, <<",", " ">>, <<" ">>}
Arrows05 == {<<"-", ">">>, <<" ", "-", ">", " ">>, <<"-">>}
Lines05 ==
  {f1 \o c1 \o f2 \o ar \o f3 \o c2 \o f4 :
     f1 \in Fields05, c1 \in Commas05, f2 \in Fields05, ar \in Arrows05,
     f3 \in Fields05, c2 \in Commas05, f4 \in Fields05}

ParseIdle ==
  /\ prScript = "none"
  /\ rawLines = << >>
  /\ records = << >>
  /\ prPc = "off"

\* The state after .split(): at least one line.
ParseInit ==
  /\ \/ /\ prScript = "day-01"
        /\ rawLines \in SeqsUpTo(Lines01, MaxRawLines) \ {<< >>}
     \/ /\ prScript = "day-05"
        /\ rawLines \in [1..1 -> Lines05]
  /\ records = << >>
  /\ prPc = "map"

\* day-01, line 40: .map(Number), for the next line.
Parse01Line ==
  /\ prPc = "map"
  /\ prScript = "day-01"
  /\ Len(records) < Len(rawLines)
  /\ records' = Append(records, Number(rawLines[Len(records) + 1]))
  /\ UNCHANGED <<prScript, rawLines, prPc, ventsVars, bingoVars, sonarVars,
                 diveVars, diagVars, loadVars>>

\* day-05, lines 102-110, for the next line: .map() on the null of a line
\* that does not match throws a TypeError; a group that is no number throws
\* 'Points must all be numbers.'
Parse05Line ==
  /\ prPc = "map"
  /\ prScript = "day-05"
  /\ Len(records) < Len(rawLines)
  /\ LET m == matchLine(rawLines[Len(records) + 1])
     IN  IF m = << >> \/ \E g \in DOMAIN m : Number(m[g]) = NaN
           THEN /\ prPc' = "threw"
                /\ UNCHANGED records
           ELSE /\ records' = Append(records,
                                [xs |-> Number(m[1]), ys |-> Number(m[2]),
                                 xe |-> Number(m[3]), ye |-> Number(m[4])])
                /\ UNCHANGED prPc
  /\ UNCHANGED <<prScript, rawLines, ventsVars, bingoVars, sonarVars,
                 diveVars, diagVars, loadVars>>

\* .map() has gone through all lines: the input is parsed and the script goes
\* on to compute its results.
ParseEnd ==
  /\ prPc = "map"
  /\ Len(records) = Len(rawLines)
  /\ prPc' = "parsed"
  /\ UNCHANGED <<prScript, rawLines, records, ventsVars, bingoVars,
                 sonarVars, diveVars, diagVars, loadVars>>

ParseNext == Parse01Line \/ Parse05Line \/ ParseEnd

----------------------------------------------------------------------------
(* The specifications: one per script *)

InitVents  == /\ VentsInit /\ BingoIdle /\ SonarIdle /\ DiveIdle /\ DiagIdle
              /\ LoadIdle /\ ParseIdle
InitBingo1 == /\ Bingo1Init /\ VentsIdle /\ SonarIdle /\ DiveIdle /\ DiagIdle
              /\ LoadIdle /\ ParseIdle
InitBingo2 == /\ Bingo2Init /\ VentsIdle /\ SonarIdle /\ DiveIdle /\ DiagIdle
              /\ LoadIdle /\ ParseIdle
InitSonar  == /\ SonarInit /\ VentsIdle /\ BingoIdle /\ DiveIdle /\ DiagIdle
              /\ LoadIdle /\ ParseIdle
InitDive   == /\ DiveInit /\ VentsIdle /\ BingoIdle /\ SonarIdle /\ DiagIdle
              /\ LoadIdle /\ ParseIdle
InitDiag   == /\ DiagInit /\ VentsIdle /\ BingoIdle /\ SonarIdle /\ DiveIdle
              /\ LoadIdle /\ ParseIdle
InitLoad   == /\ LoadInit /\ VentsIdle /\ BingoIdle /\ SonarIdle /\ DiveIdle
              /\ DiagIdle /\ ParseIdle
InitParse  == /\ ParseInit /\ VentsIdle /\ BingoIdle /\ SonarIdle /\ DiveIdle
              /\ DiagIdle /\ LoadIdle
\* The two scripts whose functions C8 is about.
InitPure   == InitSonar \/ InitDiag
NextPure   == SonarNext \/ DiagNext

SpecVents  == InitVents /\ [][VentsNext]_vars
SpecBingo1 == InitBingo1 /\ [][Bingo1Next]_vars
SpecBingo2 == InitBingo2 /\ [][Bingo2Next]_vars
SpecSonar  == InitSonar /\ [][SonarNext]_vars
SpecDive   == InitDive /\ [][DiveNext]_vars
SpecDiag   == InitDiag /\ [][DiagNext]_vars
SpecPure   == InitPure /\ [][NextPure]_vars
SpecLoad   == InitLoad /\ [][LoadNext]_vars
SpecParse  == InitParse /\ [][ParseNext]_vars

----------------------------------------------------------------------------
(* C1 *)

\* Whether the segment l covers the cell (x, y): the cell lies in the
\* segment's bounding box and on its line.
Covers(l, x, y) ==
  /\ x >= (IF l.xs <= l.xe THEN l.xs ELSE l.xe)
  /\ x <= (IF l.xs <= l.xe THEN l.xe ELSE l.xs)
  /\ y >= (IF l.ys <= l.ye THEN l.ys ELSE l.ye)
  /\ y <= (IF l.ys <= l.ye THEN l.ye ELSE l.ys)
  /\ (x - l.xs) * (l.ye - l.ys) = (y - l.ys) * (l.xe - l.xs)

\* The number of cells covered by two or more of the segments that count.
Overlaps(ls, diagonals) ==
  Cardinality(
    {c \in Coords \X Coords :
       Cardinality({k \in DOMAIN ls :
                      /\ IsStraight(ls[k]) \/ diagonals
                      /\ Covers(ls[k], c[1], c[2])}) >= 2})

\* C1: run(lines, false) is the number of cells that two or more horizontal
\* or vertical segments cover, and run(lines, true) the number that two or
\* more segments of any kind cover, whatever the width and height of the grid.
C1_RunCountsOverlaps ==
  /\ ventsPc \in {"part1", "done"} => result1 = Overlaps(lines, FALSE)
  /\ ventsPc = "done" => result2 = Overlaps(lines, TRUE)

----------------------------------------------------------------------------
(* Bingo, stated from the draws and the numbers alone                      *)

\* The numbers among the first d draws.
DrawnBy(d) == {draws[k] : k \in 1..d}

Cells(b) == (1..boardW(boards[b])) \X (1..boardH(boards[b]))
NumberAt(b, c) == boards[b].numbers[c[1]][c[2]].number

\* Board b has a row or a column whose numbers are all among the first d draws.
CompleteBy(b, d) ==
  LET drawn == DrawnBy(d)
      nums  == boards[b].numbers
  IN  \/ \E i \in DOMAIN nums :
           \A j \in DOMAIN nums[i] : nums[i][j].number \in drawn
      \/ \E j \in DOMAIN nums[1] :
           \A i \in DOMAIN nums : nums[i][j].number \in drawn

\* The draw that completes board b, 0 when none of the draws so far does.
CompletedAt(b) ==
  LET S == {d \in 1..Len(draws) : CompleteBy(b, d)}
  IN  IF S = {} THEN 0 ELSE CHOOSE d \in S : \A e \in S : d <= e

\* CompletedAt for every board of the list.
Completions == [b \in DOMAIN boards |-> CompletedAt(b)]

\* The sum of f[x] over the x in S.
RECURSIVE SumOver(_, _)
SumOver(S, f) ==
  IF S = {} THEN 0
  ELSE LET x == CHOOSE y \in S : TRUE
       IN  f[x] + SumOver(S \ {x}, f)

\* (the sum of b's numbers not among the first d draws) times the d-th draw.
ScoreAt(b, d) ==
  LET drawn    == DrawnBy(d)
      Unmarked == {c \in Cells(b) : NumberAt(b, c) \notin drawn}
      Num      == [c \in Cells(b) |-> NumberAt(b, c)]
  IN  SumOver(Unmarked, Num) * draws[d]

\* (d, b) comes before (e, c): an earlier draw, or the same draw and an
\* earlier board of the list.
Before(d, b, e, c) == d < e \/ (d = e /\ b < c)

\* C2: part1 returns the score of the first board, by draw and then by place
\* in the list, to have a full row or column: the sum of its numbers unmarked
\* at that moment times the draw that completed it, which is the last drawn.
C2_Part1FirstWinner ==
  (part = 1 /\ bingoPc = "done") =>
    LET at == Completions
    IN  \E b \in DOMAIN boards :
          /\ at[b] = Len(draws)
          /\ \A c \in DOMAIN boards :
               at[c] # 0 /\ c # b => Before(at[b], b, at[c], c)
          /\ bingoResult = ScoreAt(b, Len(draws))

\* part1 returned for the second board of two, on the second draw, a score
\* that is not 0.
C2_Witness ==
  /\ part = 1
  /\ bingoPc = "done"
  /\ Len(boards) = 2
  /\ bi = 2
  /\ Len(draws) = 2
  /\ bingoResult > 0

\* C9: once the input is parsed, part1 and part2 run to completion and return
\* a number; they do not throw.
C9_NeverThrows == bingoPc # "threw"

\* The board that completed last, by draw and then by place in the list,
\* given the draw at[b] that completed each board b; 0 when none has completed.
LastOf(at) ==
  IF \A b \in DOMAIN at : at[b] = 0 THEN 0
  ELSE CHOOSE b \in DOMAIN at :
         /\ at[b] # 0
         /\ \A c \in DOMAIN at :
              at[c] # 0 /\ c # b => Before(at[c], c, at[b], b)

\* part2's loop has dealt with board b for the d-th draw.
DealtWith(b, d) ==
  \/ d < Len(draws)
  \/ bi = 0
  \/ b < bi
  \/ (b = bi /\ bingoPc = "done")

\* The marks of board b are those of the first d draws.
MarksAsOf(b, d) ==
  LET drawn == DrawnBy(d)
      nums  == boards[b].numbers
  IN  \A i \in DOMAIN nums : \A j \in DOMAIN nums[i] :
        nums[i][j].marked <=> nums[i][j].number \in drawn

\* C10: part2 returns the score of the board that completes last (the sum of
\* its numbers unmarked when it completed, times the draw that completed it),
\* at the early return and at the return after the last draw alike; a board
\* that has completed stays completed (alreadyValidated), and its marks stay
\* those of the moment it completed, whatever is drawn later.
C10_Part2LastWinner ==
  part = 2 =>
    LET at   == Completions
        last == LastOf(at)
    IN  /\ \A b \in DOMAIN boards :
             /\ (at[b] # 0 /\ DealtWith(b, at[b])) => boards[b].alreadyValidated
             /\ boards[b].alreadyValidated =>
                  at[b] # 0 /\ MarksAsOf(b, at[b])
        /\ bingoPc = "done" =>
             /\ last # 0
             /\ lastComplete = last
             /\ bingoResult = ScoreAt(last, at[last])
             /\ bingoResult = unmarkedSum(boards[lastComplete]) * completedDraw

\* part2 returned after the last draw, one board complete since the first
\* draw, the other not complete, and a later draw hit a number of the
\* complete board.
C10_Witness ==
  /\ part = 2
  /\ bingoPc = "done"
  /\ returnedAt = "end"
  /\ Len(boards) = 2
  /\ completed = 1
  /\ Len(draws) = 2
  /\ lastComplete # 0
  /\ CompletedAt(lastComplete) = 1
  /\ \E c \in Cells(lastComplete) :
       /\ NumberAt(lastComplete, c) = draws[2]
       /\ ~boards[lastComplete].numbers[c[1]][c[2]].marked
  /\ bingoResult > 0

----------------------------------------------------------------------------
(* day-01 and day-02, stated from the input alone                          *)

\* C5: part1(data) is the number of places i where data[i+1] > data[i], also
\* for data of length 0 or 1 (then 0); for the example it is 7.
C5_Part1CountsIncreases ==
  \A c \in DOMAIN calls01 :
    calls01[c].fn = "part1" =>
      LET data == calls01[c].arg
      IN  /\ calls01[c].ret =
               Cardinality({i \in 1..(Len(data) - 1) : data[i + 1] > data[i]})
          /\ Len(data) <= 1 => calls01[c].ret = 0
          /\ data = Example01 => calls01[c].ret = 7

\* part1 was called on the example and returned 7.
C5_Witness ==
  /\ Len(calls01) >= 1
  /\ calls01[1].fn = "part1"
  /\ calls01[1].arg = Example01
  /\ calls01[1].ret = 7

\* The sums of the 3-wide windows of data: window k is
\* data[k] + data[k+1] + data[k+2]; none when data is shorter than 3.
Windows(data) ==
  [k \in 1..(IF Len(data) >= 3 THEN Len(data) - 2 ELSE 0) |->
     data[k] + data[k + 1] + data[k + 2]]

\* C6: part2(data) is part1 of the window sums of data, also for data shorter
\* than 4 (then 0); for the example it is 5.
C6_Part2IsPart1OfWindows ==
  \A c \in DOMAIN calls01 :
    calls01[c].fn = "part2" =>
      LET data == calls01[c].arg
      IN  /\ calls01[c].ret = d01_part1(Windows(data))
          /\ Len(data) < 4 => calls01[c].ret = 0
          /\ data = Example01 => calls01[c].ret = 5

\* part2 was called on an array of the longest kind whose window sums rise
\* somewhere and stay equal somewhere.
C6_Witness ==
  /\ Len(calls01) >= 1
  /\ calls01[1].fn = "part2"
  /\ LET w == Windows(calls01[1].arg)
     IN  /\ Len(calls01[1].arg) = MaxData
         /\ \E i, j \in 1..(Len(w) - 1) : w[i + 1] > w[i] /\ w[j + 1] = w[j]
         /\ calls01[1].ret >= 1

\* The indices of the instructions with direction dir among the first k.
Of(dir, k) == {j \in 1..k : j <= Len(instrs) /\ instrs[j].dir = dir}
Mag == [j \in DOMAIN instrs |-> instrs[j].num]

\* down minus up over the first k instructions.
NetDown(k) == SumOver(Of("down", k), Mag) - SumOver(Of("up", k), Mag)

Horizontal == SumOver(Of("forward", Len(instrs)), Mag)

\* The depth of the aim-adjusted model: every forward n adds n times the aim
\* of that moment, the aim being down minus up so far.
AimedDepth ==
  SumOver(Of("forward", Len(instrs)),
          [j \in DOMAIN instrs |-> instrs[j].num * NetDown(j)])

\* C7: part1 is depth x horizontal with horizontal the sum of the forwards
\* and depth the downs minus the ups; part2 is depth x horizontal with the
\* depth of the aim-adjusted model; for the example they are 150 and 900.
C7_DiveProducts ==
  /\ divePc \in {"part1", "done"} =>
       /\ diveResult1 = NetDown(Len(instrs)) * Horizontal
       /\ instrs = Example02 => diveResult1 = 150
  /\ divePc = "done" =>
       /\ diveResult2 = AimedDepth * Horizontal
       /\ instrs = Example02 => diveResult2 = 900

\* Both parts have run on instructions that go forward after going down and
\* up, and the two products differ.
C7_Witness ==
  /\ divePc = "done"
  /\ Of("down", Len(instrs)) # {}
  /\ Of("up", Len(instrs)) # {}
  /\ Of("forward", Len(instrs)) # {}
  /\ diveResult1 # diveResult2
  /\ diveResult2 # 0

----------------------------------------------------------------------------
(* Purity *)

\* Every call in the log found the array as it is now, and two calls of one
\* function returned the same.
Pure(calls, data) ==
  /\ \A c \in DOMAIN calls : calls[c].arg = data
  /\ \A c, d \in DOMAIN calls :
       calls[c].fn = calls[d].fn => calls[c].ret = calls[d].ret

----------------------------------------------------------------------------
(* The start of the scripts *)

\* A line of day-01 is a number: one digit or more.
WellFormed01(str) == str # << >> /\ \A k \in DOMAIN str : str[k] \in Digits

\* A line of day-05 is 'x,y -> x,y': four numbers, a blank allowed after each
\* comma and on either side of the arrow.
WellFormed05(str) ==
  LET Num   == {<<"1", "2">>}
      Blank == {<< >>, <<" ">>}
  IN  \E a, b, c, d \in Num : \E s1, s2, s3, s4 \in Blank :
        str = a \o <<",">> \o s1 \o b \o s2 \o <<"-", ">">> \o s3
                \o c \o <<",">> \o s4 \o d

WellFormed(str) ==
  IF prScript = "day-01" THEN WellFormed01(str) ELSE WellFormed05(str)

\* C3: a line that does not have the shape of a record ends the script at
\* parse time: no such line is skipped or turned into a record (a 0, a NaN),
\* and the script does not get as far as computing a result.
C3_MalformedLineIsFatal ==
  /\ \A k \in 1..Len(records) : WellFormed(rawLines[k])
  /\ prPc = "parsed" => \A k \in DOMAIN rawLines : WellFormed(rawLines[k])

\* C4: every script reads the file its first argument names, and
\* './puzzle-input.txt' when it has no argument, which succeeds when that
\* file exists.
C4_ArgumentOrDefault ==
  ldPc \in {"read", "threw"} =>
    /\ argv2 # Undefined => ldPath = argv2
    /\ argv2 = Undefined => ldPath = DefaultPath
    /\ (argv2 = Undefined /\ DefaultPath \in files) => ldPc = "read"

----------------------------------------------------------------------------
(* day-03 part2: the two candidate lists *)

\* No string occurs twice in arr.
Distinct(arr) == \A j, k \in DOMAIN arr : arr[j] = arr[k] => j = k

\* The values of the strings of arr.
ValuesOf(arr) == {parseInt2(arr[k]) : k \in DOMAIN arr}

\* C11: in part2, for a non-empty list of distinct strings of one width,
\* validOxygen and validCarbon are non-empty after every pass of the loop,
\* each holds exactly one string when the loop has ended, and the result is
\* the product of the values of two strings of the input.
C11_CandidatesNeverEmpty ==
  /\ (diagPc = "part2" /\ Distinct(arg03)) =>
       /\ validOxygen # << >>
       /\ validCarbon # << >>
       /\ i03 >= Len(arg03[1]) =>
            Len(validOxygen) = 1 /\ Len(validCarbon) = 1
  /\ \A k \in DOMAIN calls03 :
       (calls03[k].fn = "part2" /\ Distinct(calls03[k].arg)) =>
         \E a, b \in ValuesOf(calls03[k].arg) : calls03[k].ret = a * b

====
